---- MODULE Spec2Model ----
(***************************************************************************)
(* Trade Publisher API (src/main.py): the Flask handlers and the three     *)
(* tables they read and write (accounts, trades, trade_signals).           *)
(*                                                                         *)
(* One action per handler, translated statement by statement.  A handler   *)
(* step takes the server from idle (no response pending) to a state that   *)
(* holds the request it served and the response it produced; Deliver hands *)
(* the response to the client and returns the server to idle.  So in a     *)
(* handler step the unprimed tables are the store before the call and the  *)
(* primed ones the store after it.  Two publish calls served at once are   *)
(* modelled statement by statement (see race).                             *)
(*                                                                         *)
(* Python dicts (the JSON payload, each trade entry) are functions whose   *)
(* domain is the set of keys present: "k in d" is k \in DOMAIN d.          *)
(***************************************************************************)
EXTENDS Integers, Sequences, FiniteSets, TLC

VARIABLES
    accounts,       \* table accounts: a set of rows
    trades,         \* table trades: a set of rows
    trade_signals,  \* table trade_signals: rows in id order (id = position)
    request,        \* the request being answered, NoRequest when idle
    response,       \* its response, NoResponse when idle
    hist,           \* history of the upserts (not program state), see Hist*
    race            \* two publish calls in flight at once, NoRace when none

vars == <<accounts, trades, trade_signals, request, response, hist, race>>

---------------------------------------------------------------------------
(* Bounds of the model *)

\* entries in the trades list of one publish payload
MaxTrades == 2
\* rows the trade_signals table may hold
MaxSignals == 2

(* Value domains the inputs are drawn from *)
AccountNumbers == {1001, 1002}
Tickets == {5001, 5002}
\* epoch seconds of payload timestamps and readings of datetime.now()
Times == {1, 2}

---------------------------------------------------------------------------
(* Configuration *)

API_KEY == "your-secret-api-key"

\* DB_CONFIG['autocommit']: every statement is committed as it executes
Autocommit == TRUE

---------------------------------------------------------------------------
(* Python helpers *)

\* dict.get(k, default)
Get(d, k, default) == IF k \in DOMAIN d THEN d[k] ELSE default

\* the dict without key k
Drop(d, k) == [f \in DOMAIN d \ {k} |-> d[f]]

EmptyDict == [f \in {} |-> 0]

\* JSON values where their kind matters to the code: Num(n) is the number n,
\* None is null, [text |-> s] a string
Num(n) == [int |-> n]
None == [none |-> TRUE]

\* what datetime.fromtimestamp accepts; on anything else it raises TypeError
IsNumber(v) == "int" \in DOMAIN v

\* datetime.fromtimestamp(ts): epoch seconds to a datetime value
fromtimestamp(ts) == [dt |-> ts.int]

\* int(d.timestamp()): a datetime value back to epoch seconds
timestamp(d) == d.dt

\* SQL NULL
NULL == [null |-> TRUE]

NoRace == [on |-> FALSE]
NoRequest == [op |-> "idle"]
NoResponse == [status |-> 0]

---------------------------------------------------------------------------
(* Request gate: authenticate_request / require_auth / handle_db_error *)

\* The Authorization header, as header.split(' ') sees it; NoHeader when the
\* request carries none.
NoHeader == <<>>
Headers ==
    { NoHeader,
      <<"Basic", API_KEY>>,
      <<"Bearer", "wrong-key">>,
      <<"Bearer", API_KEY>> }
ValidHeader == <<"Bearer", API_KEY>>

\* a plausible slip: any Bearer header passes
authenticate_scheme_only(auth_header) ==
    ~(auth_header = NoHeader \/ Len(auth_header) < 2 \/ auth_header[1] # "Bearer")

\* "not auth_header or not auth_header.startswith('Bearer ')" is False;
\* otherwise token = auth_header.split(' ')[1] and token == API_KEY
authenticate_request(auth_header) ==
    IF auth_header = NoHeader \/ Len(auth_header) < 2 \/ auth_header[1] # "Bearer"
    THEN FALSE
    ELSE auth_header[2] = API_KEY

\* What a handler call comes to: the response, what became of the pooled
\* connection, and the tables (and upsert history) it leaves.  conn is
\*   "untouched"   get_db_connection() was never called
\*   "unavailable" get_db_connection() returned None
\*   "released"    conn.close() ran
\*   "leaked"      the handler ended without conn.close()
Outcome(status, body, conn, acc, tr, sig, h) ==
    [status |-> status, body |-> body, conn |-> conn,
     accounts |-> acc, trades |-> tr, trade_signals |-> sig, hist |-> h]

\* a return that wrote nothing
Reply(status, body, conn) ==
    Outcome(status, body, conn, accounts, trades, trade_signals, hist)

\* require_auth: 401 before the handler body runs
require_auth(auth_header, out) ==
    IF ~authenticate_request(auth_header)
    THEN Reply(401, [error |-> "Unauthorized"], "untouched")
    ELSE out

\* handle_db_error: a mysql.connector.Error raised by the body becomes 500
DatabaseError ==
    [error |-> "Database error", details |-> "mysql.connector.Error"]

\* "if not conn: return ... 500"
ConnectionFailed ==
    Reply(500, [error |-> "Database connection failed"], "unavailable")

\* A statement that raises ends the handler through its finally block:
\* conn.close() gives the connection back, which discards whatever the
\* connection has not committed.  With autocommit there is nothing
\* uncommitted: the statements that ran before the error stay.
Raised(acc, tr, sig, h) ==
    IF Autocommit
    THEN Outcome(500, DatabaseError, "released", acc, tr, sig, h)
    ELSE Outcome(500, DatabaseError, "released",
                 accounts, trades, trade_signals, hist)

\* handle_db_error: any other exception becomes 500 the same way
Excepted(acc, tr, sig, h) ==
    [Raised(acc, tr, sig, h) EXCEPT !.body = [error |-> "Internal server error"]]

\* an exception before the handler wrote anything
InternalError == Excepted(accounts, trades, trade_signals, hist)

\* Faults the environment may inject into one call: none, get_db_connection()
\* returning None, or the at-th statement raising mysql.connector.Error.
NoFault == [kind |-> "none", at |-> 0]
ConnFault == [kind |-> "conn", at |-> 0]
StmtFault(k) == [kind |-> "stmt", at |-> k]

\* the step a handler makes: it records the request and its outcome
Serve(req, out) ==
    /\ request = NoRequest
    /\ request' = req
    /\ response' = [status |-> out.status, body |-> out.body,
                    conn |-> out.conn]
    /\ accounts' = out.accounts
    /\ trades' = out.trades
    /\ trade_signals' = out.trade_signals
    /\ hist' = out.hist
    /\ race = NoRace
    /\ race' = race

\* the response reaches the client; the server is idle again
Deliver ==
    /\ request # NoRequest
    /\ request' = NoRequest
    /\ response' = NoResponse
    /\ UNCHANGED <<accounts, trades, trade_signals, hist, race>>

---------------------------------------------------------------------------
(* Store: keys and rows.  The schema is not part of src/; the unique keys  *)
(* are the ones ON DUPLICATE KEY UPDATE relies on.                         *)

\* accounts: UNIQUE (account_number)
AccountKey(row) == row.account_number

\* trades: UNIQUE (account_number, ticket)
TradeKey(row) == <<row.account_number, row.ticket>>

HasAccount(acc, a) == \E r \in acc : r.account_number = a
AccountRow(acc, a) == CHOOSE r \in acc : r.account_number = a

\* a plausible slip: the check looks for any trade of the account
HasTradeOfAccount(tr, a, t) == \E r \in tr : r.account_number = a

HasTrade(tr, a, t) == \E r \in tr : TradeKey(r) = <<a, t>>
TradeRow(tr, a, t) == CHOOSE r \in tr : TradeKey(r) = <<a, t>>

---------------------------------------------------------------------------
(* History of the trade upserts, kept beside the tables to state what a    *)
(* row should hold.  For each (account_number, ticket):                    *)
(*   first : the identity values of the entry whose upsert created the row *)
(*   last  : the refreshed values of the latest entry upserted for it      *)
(* and clean: no publish so far ended in an error.                         *)

NoEntry == [absent |-> TRUE]

HistKeys == AccountNumbers \X Tickets

HistInit ==
    [first |-> [k \in HistKeys |-> NoEntry],
     last  |-> [k \in HistKeys |-> NoEntry],
     clean |-> TRUE]

Identity(row) ==
    [symbol |-> row.symbol, type |-> row.type, lots |-> row.lots,
     open_price |-> row.open_price, open_time |-> row.open_time,
     comment |-> row.comment]

Refreshed(row) ==
    [profit |-> row.profit, sl |-> row.sl, tp |-> row.tp,
     last_update |-> row.last_update]

---------------------------------------------------------------------------
(* POST /api/trades: publish_trades *)

required_fields == <<"account", "server", "timestamp">>

\* the first required field the payload lacks, 0 when it has them all
FirstMissing(data) ==
    IF required_fields[1] \notin DOMAIN data THEN 1
    ELSE IF required_fields[2] \notin DOMAIN data THEN 2
    ELSE IF required_fields[3] \notin DOMAIN data THEN 3
    ELSE 0

MissingField(i) ==
    [error |-> CASE i = 1 -> "Missing required field: account"
                 [] i = 2 -> "Missing required field: server"
                 [] OTHER -> "Missing required field: timestamp"]

\* a plausible slip: the fields are checked once the connection is open
MissingAfterConnect(i) == Reply(400, MissingField(i), "released")

\* "if field not in data: return ... 400", above get_db_connection()
Missing(i) == Reply(400, MissingField(i), "untouched")

\* the parameters of account_query
AccountValues(data) ==
    [account_number |-> data["account"],
     server         |-> data["server"],
     balance        |-> Get(data, "balance", 0),
     equity         |-> Get(data, "equity", 0),
     margin         |-> Get(data, "margin", 0),
     free_margin    |-> Get(data, "free_margin", 0),
     last_update    |-> fromtimestamp(data["timestamp"])]

\* a plausible slip: REPLACE INTO, the duplicate-key clause rewrites the row
UpsertAccountAll(acc, v) == { r \in acc : AccountKey(r) # AccountKey(v) } \cup {v}

\* account_query: INSERT ... ON DUPLICATE KEY UPDATE balance, equity, margin,
\* free_margin, last_update
UpsertAccount(acc, v) ==
    IF \E r \in acc : AccountKey(r) = AccountKey(v)
    THEN { IF AccountKey(r) = AccountKey(v)
           THEN [r EXCEPT !.balance = v.balance, !.equity = v.equity,
                          !.margin = v.margin, !.free_margin = v.free_margin,
                          !.last_update = v.last_update]
           ELSE r : r \in acc }
    ELSE acc \cup {v}

\* the parameters of trade_query for one entry of data['trades']
TradeValues(data, trade) ==
    [account_number |-> data["account"],
     ticket         |-> trade["ticket"],
     symbol         |-> trade["symbol"],
     type           |-> Get(trade, "type", 0),
     lots           |-> Get(trade, "lots", 0),
     open_price     |-> Get(trade, "open_price", 0),
     open_time      |-> fromtimestamp(Get(trade, "open_time", data["timestamp"])),
     sl             |-> Get(trade, "sl", 0),
     tp             |-> Get(trade, "tp", 0),
     profit         |-> Get(trade, "profit", 0),
     comment        |-> Get(trade, "comment", ""),
     last_update    |-> fromtimestamp(data["timestamp"])]

\* a plausible slip: the duplicate-key clause rewrites every column
UpsertTradeAll(tr, v) == { r \in tr : TradeKey(r) # TradeKey(v) } \cup {v}

\* a plausible slip: the row to update is found by its ticket alone
UpsertTradeByTicket(tr, v) ==
    IF \E r \in tr : r.ticket = v.ticket
    THEN { IF r.ticket = v.ticket
           THEN [r EXCEPT !.profit = v.profit, !.sl = v.sl, !.tp = v.tp,
                          !.last_update = v.last_update]
           ELSE r : r \in tr }
    ELSE tr \cup {v}

\* trade_query: INSERT ... ON DUPLICATE KEY UPDATE profit, sl, tp, last_update
UpsertTrade(tr, v) ==
    IF \E r \in tr : TradeKey(r) = TradeKey(v)
    THEN { IF TradeKey(r) = TradeKey(v)
           THEN [r EXCEPT !.profit = v.profit, !.sl = v.sl, !.tp = v.tp,
                          !.last_update = v.last_update]
           ELSE r : r \in tr }
    ELSE tr \cup {v}

\* "if 'ticket' not in trade or 'symbol' not in trade: continue"
Skipped(trade) == "ticket" \notin DOMAIN trade \/ "symbol" \notin DOMAIN trade

\* the refreshed values an entry carries, whether or not it is upserted
EntryRefresh(data, trade) ==
    [profit |-> Get(trade, "profit", 0), sl |-> Get(trade, "sl", 0),
     tp |-> Get(trade, "tp", 0),
     last_update |-> fromtimestamp(data["timestamp"])]

\* history: the entry's upsert ran
HistUpsert(h, v) ==
    [h EXCEPT !.first[TradeKey(v)] = IF @ = NoEntry THEN Identity(v) ELSE @,
              !.last[TradeKey(v)] = Refreshed(v)]

\* the loop "for trade in data.get('trades', [])" from entry i on; st holds
\* the trades table, trades_inserted, the history and what was raised:
\* "none", "Error" (mysql.connector.Error from the statement) or "Exception"
\* (TypeError from datetime.fromtimestamp while the parameters are built)
RECURSIVE TradeLoop(_, _, _, _)
TradeLoop(st, data, i, fault) ==
    LET entries == Get(data, "trades", <<>>) IN
    IF i > Len(entries) THEN st
    ELSE LET trade == entries[i]
         IN  IF Skipped(trade)
             THEN TradeLoop(st, data, i + 1, fault)
             ELSE IF ~IsNumber(Get(trade, "open_time", data["timestamp"]))
             THEN [st EXCEPT !.raised = "Exception"]
             ELSE IF fault = StmtFault(i)
             THEN [st EXCEPT !.raised = "Error"]
             ELSE TradeLoop(
                    [st EXCEPT
                       !.trades = UpsertTrade(@, TradeValues(data, trade)),
                       !.trades_inserted = @ + 1,
                       !.hist = HistUpsert(@, TradeValues(data, trade))],
                    data, i + 1, fault)

\* a plausible slip: the response counts every entry of the list
PublishResponseAll(data, trades_inserted) ==
    [status |-> "success", trades_count |-> Len(Get(data, "trades", <<>>)),
     account |-> data["account"]]

\* the success response (its timestamp, a reading of the clock, is left out)
PublishResponse(data, trades_inserted) ==
    [status |-> "success", trades_count |-> trades_inserted,
     account |-> data["account"]]

\* the body of publish_trades, after require_auth
PublishBody(data, fault) ==
    IF DOMAIN data = {}
    THEN Reply(400, [error |-> "No data provided"], "untouched")
    ELSE IF FirstMissing(data) # 0
    THEN Missing(FirstMissing(data))
    ELSE IF fault = ConnFault
    THEN ConnectionFailed
    ELSE IF ~IsNumber(data["timestamp"])
    THEN Excepted(accounts, trades, trade_signals, [hist EXCEPT !.clean = FALSE])
    ELSE IF fault = StmtFault(0)
    THEN Raised(accounts, trades, trade_signals, [hist EXCEPT !.clean = FALSE])
    ELSE LET acc == UpsertAccount(accounts, AccountValues(data))
             run == TradeLoop([trades |-> trades, trades_inserted |-> 0,
                               hist |-> hist, raised |-> "none"],
                              data, 1, fault)
         IN  IF run.raised = "Error"
             THEN Raised(acc, run.trades, trade_signals,
                         [run.hist EXCEPT !.clean = FALSE])
             ELSE IF run.raised = "Exception"
             THEN Excepted(acc, run.trades, trade_signals,
                           [run.hist EXCEPT !.clean = FALSE])
             ELSE Outcome(200, PublishResponse(data, run.trades_inserted),
                          "released", acc, run.trades, trade_signals,
                          run.hist)

publish_trades(auth_header, data, fault) ==
    Serve([op |-> "publish", header |-> auth_header, data |-> data,
           fault |-> fault],
          require_auth(auth_header, PublishBody(data, fault)))

---------------------------------------------------------------------------
(* GET /: root, the one operation without require_auth *)

root(auth_header) ==
    Serve([op |-> "root", header |-> auth_header],
          Reply(200, [service |-> "Trade Publisher API", status |-> "running"],
                "untouched"))

---------------------------------------------------------------------------
(* GET /api/health: health_check *)

\* "SELECT 1" sits outside any try/finally: when it raises, conn.close() is
\* not reached
HealthBody(fault) ==
    IF fault = ConnFault
    THEN Reply(500, [status |-> "unhealthy", database |-> "disconnected"],
               "unavailable")
    ELSE IF fault = StmtFault(1)
    THEN Reply(500, DatabaseError, "leaked")
    ELSE Reply(200, [status |-> "healthy", database |-> "connected"],
               "released")

health_check(auth_header, fault) ==
    Serve([op |-> "health", header |-> auth_header, fault |-> fault],
          require_auth(auth_header, HealthBody(fault)))

---------------------------------------------------------------------------
(* Result sets.  ORDER BY fixes the order of rows only as far as the sort  *)
(* key differs: rows with equal keys come in any order.                    *)

\* every arrangement of the rows of S in a sequence
Orderings(S) ==
    { f \in [1..Cardinality(S) -> S] :
        \A i, j \in 1..Cardinality(S) : i # j => f[i] # f[j] }

\* LIMIT lim OFFSET off
LimitOffset(rows, lim, off) ==
    SubSeq(rows, off + 1, IF off + lim < Len(rows) THEN off + lim ELSE Len(rows))

---------------------------------------------------------------------------
(* GET /api/trades/<account_number>: get_trades *)

DefaultLimit == 100
MaxLimit == 1000

\* SELECT * FROM trades WHERE account_number = a ORDER BY open_time DESC
TradesByOpenTime(tr, a) ==
    { rows \in Orderings({ r \in tr : r.account_number = a }) :
        \A i, j \in 1..Len(rows) :
            i < j => timestamp(rows[i].open_time) >= timestamp(rows[j].open_time) }

\* "Convert datetime objects to timestamps" for one trade row
TradeJson(row) ==
    [row EXCEPT !.open_time = timestamp(@), !.last_update = timestamp(@)]

AccountJson(row) == [row EXCEPT !.last_update = timestamp(@)]

\* A query parameter is text: [int |-> n] is text that int() reads as n,
\* [text |-> s] text on which int() raises ValueError.  The defaults of
\* request.args.get are numbers.
ParsesAsInt(v) == "int" \in DOMAIN v

\* a plausible slip: the cap is not applied
LimitOfUncapped(got) == got.int

\* min(int(request.args.get('limit', 100)), 1000)
LimitOf(got) == IF got.int < MaxLimit THEN got.int ELSE MaxLimit

\* a plausible slip: an unknown account is answered with an empty page
AccountNotFoundEmptyPage ==
    Reply(200, [trades |-> <<>>, trades_count |-> 0], "released")

\* "if not account: return ... 404"
AccountNotFound == Reply(404, [error |-> "Account not found"], "released")

\* the body of get_trades; args are the query parameters, ordered the rows
\* of the account as trades_query would return them without LIMIT.  The
\* store rejects a negative LIMIT or OFFSET with an error.
GetTradesBody(account_number, args, fault, ordered) ==
    IF fault = ConnFault THEN ConnectionFailed
    ELSE IF fault = StmtFault(1)
    THEN Raised(accounts, trades, trade_signals, hist)
    ELSE IF ~HasAccount(accounts, account_number)
    THEN AccountNotFound
    ELSE LET got == Get(args, "limit", [int |-> DefaultLimit])
             off == Get(args, "offset", [int |-> 0])
         IN  IF ~ParsesAsInt(got) \/ ~ParsesAsInt(off)
             THEN InternalError
             ELSE LET limit  == LimitOf(got)
                      offset == off.int
                      page   == LimitOffset(ordered, limit, offset)
                  IN  IF fault = StmtFault(2) \/ limit < 0 \/ offset < 0
                      THEN Raised(accounts, trades, trade_signals, hist)
                      ELSE Reply(200,
                             [account |-> AccountJson(AccountRow(accounts, account_number)),
                              trades |-> [i \in 1..Len(page) |-> TradeJson(page[i])],
                              trades_count |-> Len(page),
                              pagination |-> [limit |-> limit, offset |-> offset,
                                              has_more |-> Len(page) = limit]],
                             "released")

get_trades(auth_header, account_number, args, fault) ==
    \E ordered \in TradesByOpenTime(trades, account_number) :
        Serve([op |-> "trades", header |-> auth_header,
               account_number |-> account_number, args |-> args,
               fault |-> fault],
              require_auth(auth_header,
                           GetTradesBody(account_number, args, fault, ordered)))

---------------------------------------------------------------------------
(* GET /api/accounts: get_accounts *)

\* a plausible slip: JOIN instead of LEFT JOIN, accounts without trades drop
\* out
AccountsWithTradesOnly(acc, tr) ==
    { r @@ [trades_count |->
              Cardinality({ t \in tr : t.account_number = r.account_number })] :
        r \in { q \in acc : \E t \in tr : t.account_number = q.account_number } }

\* SELECT a.*, COUNT(t.ticket) ... LEFT JOIN trades t ... GROUP BY
\* a.account_number
AccountsWithCounts(acc, tr) ==
    { r @@ [trades_count |->
              Cardinality({ t \in tr : t.account_number = r.account_number })] :
        r \in acc }

\* ... ORDER BY a.last_update DESC
AccountsByLastUpdate(acc, tr) ==
    { rows \in Orderings(AccountsWithCounts(acc, tr)) :
        \A i, j \in 1..Len(rows) :
            i < j => timestamp(rows[i].last_update) >= timestamp(rows[j].last_update) }

GetAccountsBody(fault, ordered) ==
    IF fault = ConnFault THEN ConnectionFailed
    ELSE IF fault = StmtFault(1)
    THEN Raised(accounts, trades, trade_signals, hist)
    ELSE Reply(200,
               [accounts |-> [i \in 1..Len(ordered) |-> AccountJson(ordered[i])],
                count |-> Len(ordered)],
               "released")

get_accounts(auth_header, fault) ==
    \E ordered \in AccountsByLastUpdate(accounts, trades) :
        Serve([op |-> "accounts", header |-> auth_header, fault |-> fault],
              require_auth(auth_header, GetAccountsBody(fault, ordered)))

---------------------------------------------------------------------------
(* POST /api/trades/<account_number>/close/<ticket>: close_trade_signal *)

\* trade_signals columns the INSERT does not name take the column defaults
DefaultProcessed == FALSE
DefaultProcessedAt == NULL

\* a plausible slip: no second signal while one is pending for the trade
InsertSignalOnce(sig, account_number, ticket, now) ==
    IF \E i \in 1..Len(sig) :
          /\ sig[i].account_number = account_number /\ sig[i].ticket = ticket
          /\ sig[i].processed = FALSE
    THEN sig
    ELSE Append(sig, [id             |-> Len(sig) + 1,
                      account_number |-> account_number,
                      ticket         |-> ticket,
                      signal_type    |-> "CLOSE",
                      created_at     |-> now,
                      processed      |-> FALSE,
                      processed_at   |-> NULL])

\* signal_query: INSERT INTO trade_signals (account_number, ticket,
\* signal_type, created_at); the id is the next auto-increment value
InsertSignal(sig, account_number, ticket, now) ==
    Append(sig, [id             |-> Len(sig) + 1,
                 account_number |-> account_number,
                 ticket         |-> ticket,
                 signal_type    |-> "CLOSE",
                 created_at     |-> now,
                 processed      |-> DefaultProcessed,
                 processed_at   |-> DefaultProcessedAt])

\* the body of close_trade_signal; now is the reading of datetime.now()
CloseBody(account_number, ticket, now, fault) ==
    IF fault = ConnFault THEN ConnectionFailed
    ELSE IF fault = StmtFault(1)
    THEN Raised(accounts, trades, trade_signals, hist)
    ELSE IF ~HasTrade(trades, account_number, ticket)
    THEN Reply(404, [error |-> "Trade not found"], "released")
    ELSE IF fault = StmtFault(2)
    THEN Raised(accounts, trades, trade_signals, hist)
    ELSE Outcome(200,
                 [status |-> "success", message |-> "Close signal sent",
                  account |-> account_number, ticket |-> ticket],
                 "released", accounts, trades,
                 InsertSignal(trade_signals, account_number, ticket, now),
                 hist)

close_trade_signal(auth_header, account_number, ticket, now, fault) ==
    /\ Len(trade_signals) < MaxSignals
    /\ Serve([op |-> "close", header |-> auth_header,
              account_number |-> account_number, ticket |-> ticket,
              now |-> now, fault |-> fault],
             require_auth(auth_header,
                          CloseBody(account_number, ticket, now, fault)))

---------------------------------------------------------------------------
(* GET /api/signals/<account_number>: get_signals *)

SignalRows(sig) == { sig[i] : i \in 1..Len(sig) }

\* SELECT * FROM trade_signals WHERE account_number = a AND processed = FALSE
PendingSignals(sig, account_number) ==
    { r \in SignalRows(sig) :
        r.account_number = account_number /\ r.processed = FALSE }

\* a plausible slip: ORDER BY created_at DESC
SignalsNewestFirst(sig, account_number) ==
    { rows \in Orderings(PendingSignals(sig, account_number)) :
        \A i, j \in 1..Len(rows) :
            i < j => timestamp(rows[i].created_at) >= timestamp(rows[j].created_at) }

\* ... ORDER BY created_at ASC
SignalsByCreatedAt(sig, account_number) ==
    { rows \in Orderings(PendingSignals(sig, account_number)) :
        \A i, j \in 1..Len(rows) :
            i < j => timestamp(rows[i].created_at) <= timestamp(rows[j].created_at) }

\* "Convert datetime objects to timestamps" for one signal row
SignalJson(row) == [row EXCEPT !.created_at = timestamp(@)]

GetSignalsBody(account_number, fault, ordered) ==
    IF fault = ConnFault THEN ConnectionFailed
    ELSE IF fault = StmtFault(1)
    THEN Raised(accounts, trades, trade_signals, hist)
    ELSE Reply(200,
               [signals |-> [i \in 1..Len(ordered) |-> SignalJson(ordered[i])],
                count |-> Len(ordered)],
               "released")

get_signals(auth_header, account_number, fault) ==
    \E ordered \in SignalsByCreatedAt(trade_signals, account_number) :
        Serve([op |-> "signals", header |-> auth_header,
               account_number |-> account_number, fault |-> fault],
              require_auth(auth_header,
                           GetSignalsBody(account_number, fault, ordered)))

---------------------------------------------------------------------------
(* POST /api/signals/<signal_id>/processed: mark_signal_processed *)

\* a plausible slip: the UPDATE sets the flag and forgets the stamp
MarkedFlagOnly(row, now) == [row EXCEPT !.processed = TRUE]

\* the row as "SET processed = TRUE, processed_at = now" leaves it
MarkedRow(row, now) == [row EXCEPT !.processed = TRUE, !.processed_at = now]

\* a plausible slip: the handled signal is deleted instead of flagged
DeleteProcessed(sig, signal_id, now) ==
    LET kept(row) == row.id # signal_id IN SelectSeq(sig, kept)

\* UPDATE trade_signals SET ... WHERE id = signal_id
UpdateProcessed(sig, signal_id, now) ==
    [i \in 1..Len(sig) |->
        IF sig[i].id = signal_id THEN MarkedRow(sig[i], now) ELSE sig[i]]

\* cursor.rowcount after the UPDATE: the rows the statement changed.  The
\* connection is opened without the FOUND_ROWS client flag, so a row that
\* matches the WHERE clause and already holds the new values is not counted.
RowCount(sig, signal_id, now) ==
    Cardinality({ i \in 1..Len(sig) :
                    sig[i].id = signal_id /\ MarkedRow(sig[i], now) # sig[i] })

\* the body of mark_signal_processed; now is the reading of datetime.now()
MarkBody(signal_id, now, fault) ==
    IF fault = ConnFault THEN ConnectionFailed
    ELSE IF fault = StmtFault(1)
    THEN Raised(accounts, trades, trade_signals, hist)
    ELSE IF RowCount(trade_signals, signal_id, now) = 0
    THEN Reply(404, [error |-> "Signal not found"], "released")
    ELSE Outcome(200, [status |-> "success", signal_id |-> signal_id],
                 "released", accounts, trades,
                 UpdateProcessed(trade_signals, signal_id, now), hist)

mark_signal_processed(auth_header, signal_id, now, fault) ==
    Serve([op |-> "processed", header |-> auth_header,
           signal_id |-> signal_id, now |-> now, fault |-> fault],
          require_auth(auth_header, MarkBody(signal_id, now, fault)))

---------------------------------------------------------------------------
(* Payloads the publish inputs are drawn from.  Version v fixes every      *)
(* value a payload carries.  Version 1 is a payload stamped 1 that carries *)
(* every optional field; version 2 is stamped 2 and carries none of them,  *)
(* so that the defaults apply.                                             *)

Versions == Times

ServerOf(v) == IF v = 1 THEN "Broker-Demo" ELSE "Broker-Live"
SymbolOf(v) == IF v = 1 THEN "EURUSD" ELSE "GBPUSD"

\* an entry with every field
FullTrade(t, v) ==
    [ticket |-> t, symbol |-> SymbolOf(v), type |-> 1, lots |-> 2,
     open_price |-> 11, open_time |-> Num(50 + v), sl |-> 21, tp |-> 31,
     profit |-> 41, comment |-> "ea"]

\* an entry with only the two fields the loop insists on
MinimalTrade(t, v) == [ticket |-> t, symbol |-> SymbolOf(v)]

WellFormed(t, v) == IF v = 1 THEN FullTrade(t, v) ELSE MinimalTrade(t, v)

\* the entries a payload of version v may list: well-formed ones, ones
\* without a symbol, one without a ticket
Entries(v, tickets) ==
    { WellFormed(t, v) : t \in tickets }
        \cup { Drop(WellFormed(t, v), "symbol") : t \in tickets }
        \cup { Drop(WellFormed(5001, v), "ticket") }

RECURSIVE SeqsUpTo(_, _)
SeqsUpTo(S, n) ==
    IF n = 0 THEN { <<>> }
    ELSE LET shorter == SeqsUpTo(S, n - 1) IN
         shorter \cup { Append(s, x) : s \in shorter, x \in S }

Payload(a, v, entries) ==
    LET base == [account |-> a, server |-> ServerOf(v), timestamp |-> Num(v),
                 trades |-> entries]
    IN  IF v = 1
        THEN base @@ [balance |-> 101, equity |-> 201, margin |-> 301,
                      free_margin |-> 401]
        ELSE base

\* payloads whose timestamp is present and is no number: null, a string
MalformedPayloads ==
    { [Payload(1001, 1, <<WellFormed(5001, 1)>>) EXCEPT !["timestamp"] = bad] :
        bad \in { None, [text |-> "soon"] } }

\* the payloads of the ingestion runs: one account, every list of entries
IngestAccounts == {1001}

IngestPayloads ==
    UNION { { Payload(a, v, entries) :
                a \in IngestAccounts,
                entries \in SeqsUpTo(Entries(v, Tickets), MaxTrades) } :
            v \in Versions }
      \cup { EmptyDict }
      \cup { Drop(Payload(1001, 1, <<WellFormed(5001, 1)>>), f) :
               f \in { required_fields[i] : i \in 1..3 } }
      \cup MalformedPayloads

\* the statements of one publish call that can raise
PublishFaults(data) ==
    { NoFault }
        \cup IF DOMAIN data = {} \/ FirstMissing(data) # 0 THEN {}
             ELSE { ConnFault, StmtFault(0) }
                    \cup { StmtFault(i) : i \in
                            { j \in 1..Len(Get(data, "trades", <<>>)) :
                                ~Skipped(data["trades"][j]) } }

---------------------------------------------------------------------------

Init ==
    /\ accounts = {}
    /\ trades = {}
    /\ trade_signals = <<>>
    /\ request = NoRequest
    /\ response = NoResponse
    /\ hist = HistInit
    /\ race = NoRace

---------------------------------------------------------------------------
(* The ingestion service alone: every payload, every fault *)

IngestPublish ==
    \E data \in IngestPayloads :
        \E fault \in PublishFaults(data) :
            publish_trades(ValidHeader, data, fault)

NextIngest == IngestPublish \/ Deliver

SpecIngest == Init /\ [][NextIngest]_vars

---------------------------------------------------------------------------
(* The whole API.  Publishes carry version 1 payloads with one entry for   *)
(* ticket 5001, so that the signal table has room to grow; a               *)
(* request whose header fails authenticate_request is tried once per       *)
(* operation, with the first of that operation's arguments.                *)

\* readings of datetime.now()
Now == { [dt |-> t] : t \in Times }

ApiPayloads ==
    { Payload(a, 1, <<WellFormed(5001, 1)>>) : a \in AccountNumbers }
      \cup { EmptyDict, Drop(Payload(1001, 1, <<>>), "server") }

QueryArgs == { EmptyDict, [limit |-> [int |-> 1000001], offset |-> [int |-> 1]] }

SignalIds == 1..(MaxSignals + 1)

\* the arguments tried with header h
Tried(h, S) == IF h = ValidHeader THEN S ELSE { CHOOSE x \in S : TRUE }

Faults(n) == { NoFault, ConnFault } \cup { StmtFault(i) : i \in 1..n }

Root == \E h \in Headers : root(h)

Health == \E h \in Headers : \E fault \in Tried(h, Faults(1)) : health_check(h, fault)

Publish ==
    \E h \in Headers : \E data \in Tried(h, ApiPayloads) :
        \E fault \in Tried(h, PublishFaults(data)) : publish_trades(h, data, fault)

GetTrades ==
    \E h \in Headers :
        \E a \in Tried(h, AccountNumbers), args \in Tried(h, QueryArgs),
           fault \in Tried(h, Faults(2)) :
            get_trades(h, a, args, fault)

GetAccounts ==
    \E h \in Headers : \E fault \in Tried(h, Faults(1)) : get_accounts(h, fault)

RequestClose ==
    \E h \in Headers :
        \E a \in Tried(h, AccountNumbers), t \in Tried(h, Tickets),
           now \in Tried(h, Now), fault \in Tried(h, Faults(2)) :
            close_trade_signal(h, a, t, now, fault)

ListSignals ==
    \E h \in Headers :
        \E a \in Tried(h, AccountNumbers), fault \in Tried(h, Faults(1)) :
            get_signals(h, a, fault)

MarkProcessed ==
    \E h \in Headers :
        \E id \in Tried(h, SignalIds), now \in Tried(h, Now),
           fault \in Tried(h, Faults(1)) :
            mark_signal_processed(h, id, now, fault)

Next ==
    \/ Root
    \/ Health
    \/ Publish
    \/ GetTrades
    \/ GetAccounts
    \/ RequestClose
    \/ ListSignals
    \/ MarkProcessed
    \/ Deliver

Spec == Init /\ [][Next]_vars

---------------------------------------------------------------------------
(* The query service: publishes that fill the store, the two listings.     *)
(* Account 1001 publishes every list of well-formed entries, account 1002  *)
(* an empty list or one trade; get_trades is called with every pairing of  *)
(* the parameter texts below.                                              *)

QueryPayloads ==
    UNION { { Payload(1001, v, entries) :
                entries \in SeqsUpTo({ WellFormed(t, v) : t \in Tickets },
                                     MaxTrades) } :
            v \in Versions }
      \cup { Payload(1002, 1, <<>>), Payload(1002, 2, <<WellFormed(5001, 2)>>) }

\* texts of the limit parameter: small ones that cut a page, the cap, one
\* beyond it, a negative one and one that is no number
LimitTexts ==
    { [int |-> n] : n \in 0..MaxTrades }
        \cup { [int |-> MaxLimit], [int |-> 1000001], [int |-> -1],
               [text |-> "abc"] }

OffsetTexts ==
    { [int |-> n] : n \in 0..MaxTrades } \cup { [int |-> -1], [text |-> "abc"] }

QueryParams ==
    { EmptyDict }
        \cup { [limit |-> l] : l \in LimitTexts }
        \cup { [offset |-> o] : o \in OffsetTexts }
        \cup { [limit |-> l, offset |-> o] : l \in LimitTexts, o \in OffsetTexts }

QueryPublish ==
    \E data \in QueryPayloads : publish_trades(ValidHeader, data, NoFault)

QueryTrades ==
    \E a \in AccountNumbers :
        \/ \E args \in QueryParams : get_trades(ValidHeader, a, args, NoFault)
        \/ \E fault \in Faults(2) : get_trades(ValidHeader, a, EmptyDict, fault)

QueryAccounts == \E fault \in Faults(1) : get_accounts(ValidHeader, fault)

NextQuery == QueryPublish \/ QueryTrades \/ QueryAccounts \/ Deliver

SpecQuery == Init /\ [][NextQuery]_vars

---------------------------------------------------------------------------
(* Two publish calls served at once (the app runs its handlers on threads, *)
(* each with its own pooled connection).  Both have passed require_auth    *)
(* and the check of the required fields and hold a connection.  With       *)
(* autocommit every cursor.execute is a transaction of its own, so the     *)
(* store runs the statements of the two calls one at a time, in any order  *)
(* that keeps each call's own order.                                       *)
(*   race.data[p]  the payload of call p                                   *)
(*   race.pc[p]    0 before account_query, i before the trade_query of     *)
(*                 entry i, Len + 1 when the call has returned             *)
(*   race.base     accounts and trades when the calls began                *)
(*   race.mixed    a call ran a statement while the other call was between *)
(*                 its first statement and its return                      *)

Store(acc, tr) == [accounts |-> acc, trades |-> tr]

RaceEntries(p) == Get(race.data[p], "trades", <<>>)

\* "continue" over the skipped entries: the next entry from i on that gets
\* a trade_query, Len + 1 when there is none
RECURSIVE NextEntry(_, _)
NextEntry(entries, i) ==
    IF i > Len(entries) THEN Len(entries) + 1
    ELSE IF Skipped(entries[i]) THEN NextEntry(entries, i + 1)
    ELSE i

RaceReturned(p) == race.pc[p] > Len(RaceEntries(p))

\* publish_trades run alone on a store, no statement failing
RunPublish(store, data) ==
    Store(UpsertAccount(store.accounts, AccountValues(data)),
          TradeLoop([trades |-> store.trades, trades_inserted |-> 0,
                     hist |-> HistInit, raised |-> "none"],
                    data, 1, NoFault).trades)

\* payloads of the calls that race: the first is a version 1 payload of
\* account 1001, the second a version 2 payload of either account
\* (every list of well-formed entries that names no ticket twice)
RaceLists(v) ==
    UNION { Orderings({ WellFormed(t, v) : t \in S }) : S \in SUBSET Tickets }

RaceFirst == { Payload(1001, 1, entries) : entries \in RaceLists(1) }

RaceSecond ==
    { Payload(a, 2, entries) : a \in AccountNumbers, entries \in RaceLists(2) }

\* both requests arrive
StartRace ==
    /\ request = NoRequest
    /\ race = NoRace
    /\ \E d1 \in RaceFirst, d2 \in RaceSecond :
         race' = [on |-> TRUE, data |-> <<d1, d2>>, pc |-> <<0, 0>>,
                  base |-> Store(accounts, trades), mixed |-> FALSE]
    /\ UNCHANGED <<accounts, trades, trade_signals, request, response, hist>>

\* call p executes its next statement
RaceStep(p) ==
    /\ race # NoRace
    /\ ~RaceReturned(p)
    /\ LET data == race.data[p]
           i == race.pc[p]
           q == 3 - p
           between == race.pc[q] > 0 /\ ~RaceReturned(q)
       IN  /\ IF i = 0
              THEN /\ accounts' = UpsertAccount(accounts, AccountValues(data))
                   /\ UNCHANGED <<trades, hist>>
              ELSE /\ trades' = UpsertTrade(trades,
                                            TradeValues(data, RaceEntries(p)[i]))
                   /\ hist' = HistUpsert(hist,
                                         TradeValues(data, RaceEntries(p)[i]))
                   /\ UNCHANGED accounts
           /\ race' = [race EXCEPT
                         !.pc[p] = NextEntry(RaceEntries(p), i + 1),
                         !.mixed = @ \/ between]
    /\ UNCHANGED <<trade_signals, request, response>>

\* both calls have returned 200
EndRace ==
    /\ race # NoRace
    /\ RaceReturned(1) /\ RaceReturned(2)
    /\ race' = NoRace
    /\ UNCHANGED <<accounts, trades, trade_signals, request, response, hist>>

NextRace == StartRace \/ RaceStep(1) \/ RaceStep(2) \/ EndRace

SpecRace == Init /\ [][NextRace]_vars

---------------------------------------------------------------------------
(* Claims about publish, checked under SpecIngest *)

\* C1 (as amended): for every trade row, symbol, type, lots, open_price,
\* open_time and comment are the values of the entry whose upsert created the
\* row, and profit, sl, tp and last_update are the values of the latest entry
\* upserted for that (account_number, ticket), that is, of the most recent
\* publish that carried the ticket in an entry that also has a symbol.
C1_MergeInvariant ==
    \A r \in trades :
        /\ Identity(r) = hist.first[TradeKey(r)]
        /\ Refreshed(r) = hist.last[TradeKey(r)]

\* C1 witness: after successful publishes only, a row created by a version 1
\* payload holds the refreshed values of a later version 2 payload.
C1_Witness ==
    /\ hist.clean
    /\ \E r \in trades :
        /\ r.symbol = SymbolOf(1) /\ r.open_time = [dt |-> 51]
        /\ r.profit = 0 /\ r.last_update = [dt |-> 2]

\* C1 as stated, for the publish just answered: after successful publishes
\* only, every row keeps the identity values of its creation, and the row of
\* every ticket the publish contained holds that publish's profit, sl, tp and
\* last_update.
C1_AsStated ==
    (hist.clean /\ request.op = "publish" /\ response.status = 200) =>
        LET data == request.data
            entries == Get(data, "trades", <<>>)
        IN  /\ \A r \in trades : Identity(r) = hist.first[TradeKey(r)]
            /\ \A i \in 1..Len(entries) : \A r \in trades :
                 ( "ticket" \in DOMAIN entries[i]
                   /\ r.account_number = data["account"]
                   /\ r.ticket = entries[i]["ticket"] )
                 => Refreshed(r) = EntryRefresh(data, entries[i])

\* C2: a publish call in which a statement raises leaves the trades table as
\* it was before the call.
C2_AllOrNothing ==
    [][ (request'.op = "publish" /\ request'.fault.kind = "stmt")
            => trades' = trades ]_vars

\* C3: a publish that has its required fields, the timestamp a number, and
\* meets no error answers 200
\* with trades_count the number of entries that carry both ticket and symbol;
\* it writes the row of each such entry and no other row.
C3_SkipAndCount ==
    [][ (request'.op = "publish" /\ request'.fault = NoFault
         /\ {"account", "server", "timestamp"} \subseteq DOMAIN request'.data
         /\ IsNumber(request'.data["timestamp"]))
        => LET data == request'.data
               entries == Get(data, "trades", <<>>)
               both == { i \in 1..Len(entries) :
                           {"ticket", "symbol"} \subseteq DOMAIN entries[i] }
               keys == { <<data["account"], entries[i]["ticket"]>> : i \in both }
           IN  /\ response'.status = 200
               /\ response'.body.trades_count = Cardinality(both)
               /\ \A r \in trades : TradeKey(r) \notin keys => r \in trades'
               /\ \A r \in trades' : TradeKey(r) \notin keys => r \in trades
               /\ \A k \in keys : \E r \in trades' :
                    /\ TradeKey(r) = k
                    /\ r.last_update = fromtimestamp(data["timestamp"]) ]_vars

\* C3 witness: a batch of one well-formed entry and one without a ticket was
\* answered with trades_count 1 and only the well-formed entry is stored.
C3_Witness ==
    /\ request.op = "publish" /\ response.status = 200
    /\ Len(request.data["trades"]) = 2
    /\ \E i \in 1..2 : "ticket" \notin DOMAIN request.data["trades"][i]
    /\ response.body.trades_count = 1
    /\ Cardinality(trades) = 1

---------------------------------------------------------------------------
(* Claims about the gate and the signal service, checked under Spec *)

\* C4: a call of any operation but root whose header carries no bearer token
\* equal to API_KEY is answered 401, never calls get_db_connection() and
\* leaves accounts, trades and trade_signals as they were.
C4_Unauthorized ==
    [][ (request' # NoRequest /\ request'.op # "root"
         /\ request'.header # <<"Bearer", API_KEY>>)
        => /\ response'.status = 401
           /\ response'.conn = "untouched"
           /\ accounts' = accounts
           /\ trades' = trades
           /\ trade_signals' = trade_signals ]_vars

\* C4 witness: a close request for a stored trade, sent with a wrong token,
\* was answered 401.
C4_Witness ==
    /\ request.op = "close"
    /\ request.header = <<"Bearer", "wrong-key">>
    /\ HasTrade(trades, request.account_number, request.ticket)
    /\ response.status = 401

\* C5: a close request that meets no error is answered 404 and adds no signal
\* when no trade row has its (account_number, ticket); otherwise it is
\* answered 200 and adds exactly one row, a CLOSE signal with processed
\* FALSE for that (account_number, ticket), whatever signals exist already.
C5_RequestClose ==
    [][ (request'.op = "close" /\ request'.header = ValidHeader
         /\ request'.fault = NoFault)
        => LET a == request'.account_number
               t == request'.ticket
               n == Len(trade_signals)
           IN  IF ~\E r \in trades : r.account_number = a /\ r.ticket = t
               THEN /\ response'.status = 404
                    /\ trade_signals' = trade_signals
               ELSE /\ response'.status = 200
                    /\ Len(trade_signals') = n + 1
                    /\ SubSeq(trade_signals', 1, n) = trade_signals
                    /\ trade_signals'[n + 1].account_number = a
                    /\ trade_signals'[n + 1].ticket = t
                    /\ trade_signals'[n + 1].signal_type = "CLOSE"
                    /\ trade_signals'[n + 1].processed = FALSE ]_vars

\* C5 witness: two close requests for the same trade left two signal rows.
C5_Witness ==
    /\ request.op = "close" /\ response.status = 200
    /\ Len(trade_signals) = 2
    /\ trade_signals[1].account_number = trade_signals[2].account_number
    /\ trade_signals[1].ticket = trade_signals[2].ticket
    /\ ~trade_signals[1].processed

\* the ids of the signals of account a whose processed flag is FALSE
UnprocessedIds(a) ==
    { trade_signals[i].id : i \in
        { j \in 1..Len(trade_signals) :
            /\ trade_signals[j].account_number = a
            /\ trade_signals[j].processed = FALSE } }

\* the list answers exactly the unprocessed signals of the account, each once
ListsUnprocessed ==
    LET out == response.body.signals IN
    /\ { out[i].id : i \in 1..Len(out) } = UnprocessedIds(request.account_number)
    /\ Len(out) = Cardinality(UnprocessedIds(request.account_number))
    /\ response.body.count = Len(out)
    /\ \A i \in 1..Len(out) :
         out[i].created_at = timestamp(trade_signals[out[i].id].created_at)

\* C6 (as amended): listSignals answers exactly the signals of the account
\* whose processed flag is FALSE, in ascending created_at order in which
\* signals of equal created_at may come in either order.
C6_ListSignals ==
    (request.op = "signals" /\ response.status = 200) =>
        /\ ListsUnprocessed
        /\ \A i, j \in 1..Len(response.body.signals) :
             i < j => response.body.signals[i].created_at
                        <= response.body.signals[j].created_at

\* C6 witness: a list of two signals of one account created at the same
\* time.
C6_Witness ==
    /\ request.op = "signals" /\ response.status = 200
    /\ Len(response.body.signals) = 2
    /\ response.body.signals[1].created_at = response.body.signals[2].created_at

\* C6 as stated: the list is in strictly ascending created_at order.
C6_AsStated ==
    (request.op = "signals" /\ response.status = 200) =>
        /\ ListsUnprocessed
        /\ \A i, j \in 1..Len(response.body.signals) :
             i < j => response.body.signals[i].created_at
                        < response.body.signals[j].created_at

\* C7: a markProcessed request that meets no error is answered 404 and
\* changes no row when no signal has the id; otherwise it is answered 200 and
\* sets processed TRUE and processed_at to the clock reading on that row
\* only.
C7_MarkProcessed ==
    [][ (request'.op = "processed" /\ request'.header = ValidHeader
         /\ request'.fault = NoFault)
        => LET id == request'.signal_id IN
           IF ~\E i \in 1..Len(trade_signals) : trade_signals[i].id = id
           THEN /\ response'.status = 404
                /\ trade_signals' = trade_signals
           ELSE /\ response'.status = 200
                /\ Len(trade_signals') = Len(trade_signals)
                /\ \A i \in 1..Len(trade_signals) :
                     trade_signals'[i] =
                        IF trade_signals[i].id = id
                        THEN [trade_signals[i] EXCEPT
                                !.processed = TRUE,
                                !.processed_at = request'.now]
                        ELSE trade_signals[i] ]_vars

\* C8: a markProcessed request, meeting no error, for a signal that is
\* already processed is answered 200 and the row carries the new stamp.
C8_SecondMark ==
    [][ (request'.op = "processed" /\ request'.header = ValidHeader
         /\ request'.fault = NoFault)
        => \A i \in 1..Len(trade_signals) :
             ( trade_signals[i].id = request'.signal_id
               /\ trade_signals[i].processed = TRUE )
             => /\ response'.status = 200
                /\ trade_signals'[i].processed_at = request'.now ]_vars

\* C9: every signal row has processed_at set if and only if processed is
\* TRUE.
C9_ProcessedAt ==
    \A i \in 1..Len(trade_signals) :
        (trade_signals[i].processed_at # NULL) <=> (trade_signals[i].processed = TRUE)

\* C9 witness: a processed signal beside an unprocessed one.
C9_Witness ==
    /\ \E i \in 1..Len(trade_signals) :
         trade_signals[i].processed /\ trade_signals[i].processed_at # NULL
    /\ \E i \in 1..Len(trade_signals) :
         ~trade_signals[i].processed /\ trade_signals[i].processed_at = NULL

\* C10: no step removes a signal row, turns processed from TRUE to FALSE, or
\* changes the id, account_number, ticket, signal_type or created_at of a
\* row.
C10_SignalLifecycle ==
    [][ /\ Len(trade_signals') >= Len(trade_signals)
        /\ \A i \in 1..Len(trade_signals) :
             /\ trade_signals'[i].id = trade_signals[i].id
             /\ trade_signals'[i].account_number = trade_signals[i].account_number
             /\ trade_signals'[i].ticket = trade_signals[i].ticket
             /\ trade_signals'[i].signal_type = trade_signals[i].signal_type
             /\ trade_signals'[i].created_at = trade_signals[i].created_at
             /\ (trade_signals[i].processed => trade_signals'[i].processed) ]_vars

\* C10 witness: a signal was marked processed and kept its place and its
\* creation fields beside another signal that is still unprocessed.
C10_Witness ==
    /\ request.op = "processed" /\ response.status = 200
    /\ Len(trade_signals) = 2
    /\ trade_signals[1].id = request.signal_id
    /\ trade_signals[1].processed
    /\ trade_signals[1].signal_type = "CLOSE"
    /\ ~trade_signals[2].processed

---------------------------------------------------------------------------
(* Claims about the account row, checked under SpecIngest *)

\* C11: no step leaves two account rows with one account_number or changes
\* the account_number or the server of a row; a successful publish leaves
\* exactly one row for its account, with balance, equity, margin and
\* free_margin as supplied (0 when absent), last_update the batch timestamp
\* and the server of the publish that created the row.
C11_AccountUpsert ==
    [][ /\ \A r \in accounts :
             \E q \in accounts' :
                 q.account_number = r.account_number /\ q.server = r.server
        /\ \A q1, q2 \in accounts' :
             q1.account_number = q2.account_number => q1 = q2
        /\ (request'.op = "publish" /\ response'.status = 200)
           => LET data == request'.data
                  rows == { q \in accounts' : q.account_number = data["account"] }
                  was  == { r \in accounts : r.account_number = data["account"] }
              IN  /\ Cardinality(rows) = 1
                  /\ \A q \in rows :
                       /\ q.balance = Get(data, "balance", 0)
                       /\ q.equity = Get(data, "equity", 0)
                       /\ q.margin = Get(data, "margin", 0)
                       /\ q.free_margin = Get(data, "free_margin", 0)
                       /\ q.last_update = fromtimestamp(data["timestamp"])
                       /\ was = {} => q.server = data["server"]
                       /\ \A r \in was : q.server = r.server ]_vars

\* C11 witness: a publish that names another server and carries no financial
\* field succeeded on an account created earlier; the row keeps the first
\* server and holds the defaults and the new timestamp.
C11_Witness ==
    /\ request.op = "publish" /\ response.status = 200
    /\ request.data["server"] = ServerOf(2)
    /\ "balance" \notin DOMAIN request.data
    /\ accounts = { [account_number |-> 1001, server |-> ServerOf(1),
                     balance |-> 0, equity |-> 0, margin |-> 0,
                     free_margin |-> 0, last_update |-> [dt |-> 2]] }

---------------------------------------------------------------------------
(* Claims about the handlers, checked under Spec *)

\* C12: no handler ends while it still holds the connection it acquired:
\* whenever a request has been answered, get_db_connection() was not called,
\* or returned None, or conn.close() ran; so no connection is out of the
\* pool once the handler has returned.
C12_ConnectionReleased ==
    request # NoRequest
        => response.conn \in { "untouched", "unavailable", "released" }

---------------------------------------------------------------------------
(* Claims about the listings, checked under SpecQuery *)

\* C13: a getTrades call that meets no store error, for an account_number
\* that has no account row, is answered 404 whatever the limit and offset
\* parameters are, and leaves the three tables as they were.
C13_UnknownAccount ==
    [][ (request'.op = "trades" /\ request'.header = ValidHeader
         /\ request'.fault = NoFault
         /\ ~\E r \in accounts : r.account_number = request'.account_number)
        => /\ response'.status = 404
           /\ accounts' = accounts
           /\ trades' = trades
           /\ trade_signals' = trade_signals ]_vars

\* C13 witness: a 404 for an unknown account although the limit is no number
\* and the offset is negative, while another account has trades.
C13_Witness ==
    /\ request.op = "trades" /\ response.status = 404
    /\ request.args = [limit |-> [text |-> "abc"], offset |-> [int |-> -1]]
    /\ \E r \in trades : r.account_number # request.account_number

\* C14: a getTrades call on an existing account that meets no store error,
\* with limit and offset absent or non-negative numbers, is answered 200;
\* the effective limit is the requested limit (100 when absent) capped at
\* 1000, the page holds at most that many trades, pagination reports that
\* limit and the requested offset (0 when absent), and has_more is true
\* exactly when the page holds as many trades as the effective limit.
C14_Pagination ==
    [][ (request'.op = "trades" /\ request'.header = ValidHeader
         /\ request'.fault = NoFault
         /\ \E r \in accounts : r.account_number = request'.account_number)
        => LET args == request'.args
               asked == IF "limit" \in DOMAIN args THEN args["limit"]
                        ELSE [int |-> 100]
               from == IF "offset" \in DOMAIN args THEN args["offset"]
                       ELSE [int |-> 0]
               body == response'.body
           IN  ("int" \in DOMAIN asked /\ "int" \in DOMAIN from
                /\ asked.int >= 0 /\ from.int >= 0)
               => LET effective == IF asked.int <= 1000 THEN asked.int ELSE 1000
                  IN  /\ response'.status = 200
                      /\ Len(body.trades) <= effective
                      /\ body.trades_count = Len(body.trades)
                      /\ body.pagination.limit = effective
                      /\ body.pagination.offset = from.int
                      /\ body.pagination.has_more
                           <=> (Len(body.trades) = effective) ]_vars

\* C14 witness: a page cut to one trade by limit 1 while the account has two
\* trades; has_more is true.
C14_Witness ==
    /\ request.op = "trades" /\ response.status = 200
    /\ request.args = [limit |-> [int |-> 1]]
    /\ Cardinality({ r \in trades : r.account_number = request.account_number }) = 2
    /\ Len(response.body.trades) = 1
    /\ response.body.pagination.has_more

---------------------------------------------------------------------------
(* Claims about the validation of publish, checked under SpecIngest *)

\* C15: a publish whose payload lacks account, server or timestamp is
\* answered 400 before get_db_connection() is called and leaves accounts and
\* trades as they were.
C15_MissingField ==
    [][ (request'.op = "publish" /\ request'.header = ValidHeader
         /\ ~({"account", "server", "timestamp"} \subseteq DOMAIN request'.data))
        => /\ response'.status = 400
           /\ response'.conn = "untouched"
           /\ accounts' = accounts
           /\ trades' = trades ]_vars

\* C15 witness: a payload that has account, timestamp and a well-formed
\* trade but no server was answered 400 on a store that holds rows.
C15_Witness ==
    /\ request.op = "publish" /\ response.status = 400
    /\ DOMAIN request.data = {"account", "timestamp", "trades", "balance",
                              "equity", "margin", "free_margin"}
    /\ response.body = [error |-> "Missing required field: server"]
    /\ accounts # {} /\ trades # {}

\* C16: a publish whose payload has account, server and timestamp, the
\* timestamp being no number (null, a string), is answered 400.
C16_MalformedField ==
    [][ (request'.op = "publish" /\ request'.header = ValidHeader
         /\ {"account", "server", "timestamp"} \subseteq DOMAIN request'.data
         /\ ~IsNumber(request'.data["timestamp"]))
        => response'.status = 400 ]_vars

\* C18: the answer of getAccounts lists every account row exactly once, each
\* with its columns and with trades_count the number of trade rows of that
\* account_number (0 when it has none), in descending order of last_update.
C18_GetAccounts ==
    (request.op = "accounts" /\ response.status = 200) =>
        LET out == response.body.accounts IN
        /\ Len(out) = Cardinality(accounts)
        /\ response.body.count = Len(out)
        /\ \A r \in accounts :
             \E i \in 1..Len(out) :
                 /\ out[i].account_number = r.account_number
                 /\ out[i].server = r.server
                 /\ out[i].balance = r.balance
                 /\ out[i].last_update = r.last_update.dt
                 /\ out[i].trades_count =
                      Cardinality({ t \in trades :
                                      t.account_number = r.account_number })
        /\ \A i, j \in 1..Len(out) :
             i < j => out[i].last_update >= out[j].last_update

\* C18 witness: two accounts listed, the one updated last first, with two
\* trades, the other without trades.
C18_Witness ==
    /\ request.op = "accounts" /\ response.status = 200
    /\ Len(response.body.accounts) = 2
    /\ response.body.accounts[1].last_update > response.body.accounts[2].last_update
    /\ response.body.accounts[1].trades_count = 2
    /\ response.body.accounts[2].trades_count = 0

---------------------------------------------------------------------------
(* Claims about the store as a whole, checked under Spec *)

\* C20: in every state each signal row names an (account_number, ticket) of
\* a stored trade row, and each trade row an account_number of a stored
\* account row.
C20_NoDangling ==
    /\ \A i \in 1..Len(trade_signals) :
         \E t \in trades :
             /\ t.account_number = trade_signals[i].account_number
             /\ t.ticket = trade_signals[i].ticket
    /\ \A t \in trades :
         \E a \in accounts : a.account_number = t.account_number

\* C20 witness: a close request for a ticket that has no trade row was turned
\* down while the store holds a signal for the account's stored trade.
C20_Witness ==
    /\ request.op = "close" /\ response.status = 404
    /\ request.header = ValidHeader
    /\ Len(trade_signals) = 1
    /\ trade_signals[1].account_number = request.account_number
    /\ trade_signals[1].ticket # request.ticket
    /\ \E a \in accounts : a.account_number = request.account_number

---------------------------------------------------------------------------
(* Claims about concurrent publishes, checked under SpecRace *)

\* the account row and the trade rows of account a in a store
RowsOf(store, a) ==
    Store({ r \in store.accounts : r.account_number = a },
          { r \in store.trades : r.account_number = a })

RaceOver == race # NoRace /\ RaceReturned(1) /\ RaceReturned(2)

\* C17: when two publish calls for different accounts have run with their
\* statements interleaved in any way, the account row and the trade rows of
\* each account are those that its own publish, run alone on the store the
\* calls found, would have left.
C17_Independent ==
    (RaceOver /\ race.data[1]["account"] # race.data[2]["account"])
    => \A p \in 1..2 :
         RowsOf(Store(accounts, trades), race.data[p]["account"])
            = RowsOf(RunPublish(race.base, race.data[p]),
                     race.data[p]["account"])

\* C17 witness: two calls for different accounts, two trades each, have
\* returned after their statements were interleaved, on a store that held
\* rows of both accounts before.
C17_Witness ==
    /\ RaceOver /\ race.mixed
    /\ race.data[1]["account"] # race.data[2]["account"]
    /\ Len(race.data[1]["trades"]) = 2 /\ Len(race.data[2]["trades"]) = 2
    /\ \E r \in race.base.trades : r.account_number = 1001
    /\ \E r \in race.base.trades : r.account_number = 1002

\* C19: when two publish calls for the same account have run with their
\* statements interleaved in any way, the account row and the trade rows of
\* that account are those of one of the two serial orders of the calls.
C19_Serializable ==
    (RaceOver /\ race.data[1]["account"] = race.data[2]["account"])
    => LET a == race.data[1]["account"]
           d1 == race.data[1]
           d2 == race.data[2]
       IN  RowsOf(Store(accounts, trades), a)
              \in { RowsOf(RunPublish(RunPublish(race.base, d1), d2), a),
                    RowsOf(RunPublish(RunPublish(race.base, d2), d1), a) }

====
